---- MODULE Spec2Model ----
(***************************************************************************)
(* A model of the LINE webhook bot of src/app.py: the member gate, the     *)
(* daily usage quota, the analysis log (duplicate replay), the signal      *)
(* cache and the webhook's error handling.                                 *)
(*                                                                         *)
(* A text is a sequence of lines and a line a sequence of characters, so   *)
(* that strip(), split(':', 1), the keyword test and the numeric           *)
(* conversions are computed as the code computes them.  A character is a   *)
(* string; a Chinese character is written as its pinyin ("zhuan" is the    *)
(* one character U+8F49 of the keyword test).                              *)
(***************************************************************************)
EXTENDS Integers, Sequences, FiniteSets, Bags, TLC

VARIABLES members, usage_logs, analysis_logs, signal_stats, LATEST_SIGNALS,
          today, env, last, gen, handlers

vars == <<members, usage_logs, analysis_logs, signal_stats, LATEST_SIGNALS,
          today, env, last, gen, handlers>>

(***************************************************************************)
(* Bounds of the model.                                                    *)
(***************************************************************************)
\* days the clock may advance (local days 0..MaxDay)
MaxDay == 1
\* backend calls that may fail during one webhook delivery
MaxFaults == 1
\* rows per user a table may hold when failed lookups let duplicates in
MaxRows == 2
\* webhook deliveries handled at the same time
MaxHandlers == 2

(***************************************************************************)
(* Program constants.                                                      *)
(***************************************************************************)
NOT_OPEN_HIGH == 250
NOT_OPEN_MED == 150
NOT_OPEN_LOW == 50
RTP_HIGH == 120
RTP_MED == 110
RTP_LOW == 90
BETS_HIGH == 80000
BETS_LOW == 30000
\* limit = 50 if level == "vip" else 15
VipLimit == 50
NormalLimit == 15
\* sum(q) <= 12 or attempts > 30
ComboCap == 12
MaxAttempts == 30

Users == {"U1", "U2"}
\* the user id ADMIN_LINE_ID names when it is set
AdminUser == "U2"

None == [none |-> TRUE]

(***************************************************************************)
(* Characters and strings.                                                 *)
(***************************************************************************)
Digits == {"0", "1", "2", "3", "4", "5", "6", "7", "8", "9"}

DigitVal(c) ==
    CASE c = "0" -> 0 [] c = "1" -> 1 [] c = "2" -> 2 [] c = "3" -> 3
      [] c = "4" -> 4 [] c = "5" -> 5 [] c = "6" -> 6 [] c = "7" -> 7
      [] c = "8" -> 8 [] c = "9" -> 9

DigitChar(n) == <<"0", "1", "2", "3", "4", "5", "6", "7", "8", "9">>[n + 1]

IsDigit(c) == c \in Digits
IsDigitOrDot(c) == c \in Digits \cup {"."}
IsSpace(c) == c = " "

RECURSIVE DigitsToInt(_)
\* int() of a string of decimal digits
DigitsToInt(d) ==
    IF d = <<>> THEN 0
    ELSE 10 * DigitsToInt(SubSeq(d, 1, Len(d) - 1)) + DigitVal(d[Len(d)])

RECURSIVE IntToDigits(_)
\* str() of a natural number
IntToDigits(n) ==
    IF n < 10 THEN <<DigitChar(n)>>
    ELSE IntToDigits(n \div 10) \o <<DigitChar(n % 10)>>

RECURSIVE LStrip(_)
LStrip(s) == IF s # <<>> /\ IsSpace(s[1]) THEN LStrip(Tail(s)) ELSE s

RECURSIVE RStrip(_)
RStrip(s) ==
    IF s # <<>> /\ IsSpace(s[Len(s)]) THEN RStrip(SubSeq(s, 1, Len(s) - 1)) ELSE s

\* str.strip() of one line
StripLine(s) == RStrip(LStrip(s))

\* needle in s
Contains(s, needle) ==
    \E i \in 1..(Len(s) - Len(needle) + 1) :
        SubSeq(s, i, i + Len(needle) - 1) = needle

\* the index of the first c in s, 0 when there is none
IndexOf(s, c) ==
    IF \E i \in 1..Len(s) : s[i] = c
    THEN CHOOSE i \in 1..Len(s) : s[i] = c /\ \A j \in 1..(i - 1) : s[j] # c
    ELSE 0

RECURSIVE DropBlankHead(_)
DropBlankHead(m) ==
    IF m # <<>> /\ StripLine(m[1]) = <<>> THEN DropBlankHead(Tail(m)) ELSE m

RECURSIVE DropBlankTail(_)
DropBlankTail(m) ==
    IF m # <<>> /\ StripLine(m[Len(m)]) = <<>>
    THEN DropBlankTail(SubSeq(m, 1, Len(m) - 1)) ELSE m

\* event.message.text.strip(): whitespace, newlines included, leaves both ends
StripMsg(m) ==
    LET core == DropBlankTail(DropBlankHead(m)) IN
    IF core = <<>> THEN <<>>
    ELSE IF Len(core) = 1 THEN <<StripLine(core[1])>>
    ELSE <<LStrip(core[1])>> \o SubSeq(core, 2, Len(core) - 1)
         \o <<RStrip(core[Len(core)])>>

\* hashlib.sha256(msg.encode("utf-8")).hexdigest(): injective on the texts
\* of the model, so the digest is represented by the text it digests
sha256(m) == m

(***************************************************************************)
(* The fixed texts of the program.                                         *)
(***************************************************************************)
KEY_NOT_OPEN == <<"wei", "kai", "zhuan", "shu">>
KEY_RTP == <<"jin", "ri", "R", "T", "P", "%", "shu">>
KEY_BETS == <<"jin", "ri", "zong", "xia", "zhu", "e">>

CMD_APPLY == << <<"wo", "yao", "kai", "tong">> >>
CMD_TABLE == << <<"fang", "jian", "zi", "xun", "biao", "ge">> >>
CMD_HELP == << <<"shi", "yong", "shuo", "ming">> >>
CMD_SAVE == << <<"chu", "cun", "xun", "hao">> >>
CMD_ADMIN_SAVE == << <<"guan", "li", "yuan", "chu", "cun", "xun", "hao">> >>

\* the reply to CMD_TABLE: the form a user fills in and sends back
TABLE_FORM == << KEY_NOT_OPEN \o <<" ", ":">>,
                 KEY_RTP \o <<" ", ":">>,
                 KEY_BETS \o <<" ", ":">> >>

(***************************************************************************)
(* fake_human_like_reply: the field parser (lines 355-371).                *)
(***************************************************************************)
HasColon(raw) == IndexOf(raw, ":") # 0

\* k.strip() of k, v = raw.split(':', 1)
LineKey(raw) == StripLine(SubSeq(raw, 1, IndexOf(raw, ":") - 1))

\* v.strip() of k, v = raw.split(':', 1)
LineValue(raw) == StripLine(SubSeq(raw, IndexOf(raw, ":") + 1, Len(raw)))

\* lines.get(key, "0") of the dict built from msg.split('\n'): the last line
\* with the key wins
LinesGet(msg, key) ==
    LET idx == {i \in 1..Len(msg) : HasColon(msg[i]) /\ LineKey(msg[i]) = key} IN
    IF idx = {} THEN <<"0">>
    ELSE LineValue(msg[CHOOSE i \in idx : \A j \in idx : j <= i])

\* int(re.sub(r'[^\d]', '', v)): ValueError when no digit is left
ParseInt(v) ==
    LET d == SelectSeq(v, IsDigit) IN
    [ok |-> d # <<>>, val |-> DigitsToInt(d)]

\* float() gives the double nearest to the decimal text: a double has 53
\* significant bits
DoubleBits == 53

RECURSIVE HalfOf(_, _)
\* the digits of half the decimal fraction 0.d; carry is 1 after an odd digit
HalfOf(d, carry) ==
    IF d = <<>> THEN (IF carry = 1 THEN <<5>> ELSE <<>>)
    ELSE <<(10 * carry + d[1]) \div 2>> \o HalfOf(Tail(d), d[1] % 2)

RECURSIVE PowHalf(_)
\* the digits of the decimal fraction 2^(-k), k >= 1
PowHalf(k) == IF k = 1 THEN <<5>> ELSE HalfOf(PowHalf(k - 1), 0)

\* the digits of 1 - 0.d, the last digit of d not being 0
OneMinus(d) ==
    [i \in 1..Len(d) |-> IF i = Len(d) THEN 10 - d[i] ELSE 9 - d[i]]

RECURSIVE Log2(_)
\* the exponent of the double of a whole number n >= 1
Log2(n) == IF n < 2 THEN 0 ELSE 1 + Log2(n \div 2)

\* the doubles between w and w + 1 are 2^(e - 52) apart, e the exponent of w
\* (-1 just below 1): a text at or above w + 1 - 2^(e - 53) is nearer to
\* w + 1, or as near and w + 1 the even one, and float() gives w + 1.
\* RoundsUpFrom[e] are the digits of that fraction 1 - 2^(e - 53).
RoundsUpFrom == [e \in (0 - 1)..30 |-> OneMinus(PowHalf(DoubleBits - e))]

RECURSIVE FracAtLeast(_, _)
\* 0.f >= 0.t, f a string of digits and t a sequence of digit values
FracAtLeast(f, t) ==
    IF t = <<>> THEN TRUE
    ELSE LET d == IF f = <<>> THEN 0 ELSE DigitVal(f[1]) IN
         IF d > t[1] THEN TRUE
         ELSE IF d < t[1] THEN FALSE
         ELSE FracAtLeast(IF f = <<>> THEN <<>> ELSE Tail(f), Tail(t))

\* int(float(re.sub(r'[^\d\.]', '', v))): float() raises on "", "." and on a
\* second dot and rounds the text to the nearest double; int() drops the
\* fraction of that double.  frac keeps the fraction's digits.
ParseFloatInt(v) ==
    LET f == SelectSeq(v, IsDigitOrDot)
        dot == IndexOf(f, ".")
        whole == IF dot = 0 THEN f ELSE SubSeq(f, 1, dot - 1)
        frac == IF dot = 0 THEN <<>> ELSE SubSeq(f, dot + 1, Len(f))
        ok == /\ SelectSeq(f, IsDigit) # <<>>
              /\ SelectSeq(frac, IsDigit) = frac
        w == DigitsToInt(whole)
        e == IF w = 0 THEN 0 - 1 ELSE Log2(w)
    IN  [ok |-> ok,
         val |-> IF ok /\ FracAtLeast(frac, RoundsUpFrom[e]) THEN w + 1
                 ELSE w,
         frac |-> frac]

\* the try block of fake_human_like_reply
ParseFields(msg) ==
    LET n == ParseInt(LinesGet(msg, KEY_NOT_OPEN))
        r == ParseFloatInt(LinesGet(msg, KEY_RTP))
        b == ParseFloatInt(LinesGet(msg, KEY_BETS))
    IN  [ok |-> n.ok /\ r.ok /\ b.ok,
         not_open |-> n.val, rtp_today |-> r.val, bets_today |-> b.val]

(***************************************************************************)
(* fake_human_like_reply: the risk score (lines 418-443).                  *)
(***************************************************************************)
\* the score whose bets test is > BETS_HIGH instead of >=
risk_score_bets_strict(not_open, rtp_today, bets_today) ==
    (IF not_open > NOT_OPEN_HIGH THEN 2
     ELSE IF not_open > NOT_OPEN_MED THEN 1
     ELSE IF not_open < NOT_OPEN_LOW THEN -1 ELSE 0)
    + (IF rtp_today > RTP_HIGH THEN 2
       ELSE IF rtp_today > RTP_MED THEN 1
       ELSE IF rtp_today < RTP_LOW THEN -1 ELSE 0)
    + (IF bets_today > BETS_HIGH THEN -1
       ELSE IF bets_today < BETS_LOW THEN 1 ELSE 0)

risk_score(not_open, rtp_today, bets_today) ==
    (IF not_open > NOT_OPEN_HIGH THEN 2
     ELSE IF not_open > NOT_OPEN_MED THEN 1
     ELSE IF not_open < NOT_OPEN_LOW THEN -1 ELSE 0)
    + (IF rtp_today > RTP_HIGH THEN 2
       ELSE IF rtp_today > RTP_MED THEN 1
       ELSE IF rtp_today < RTP_LOW THEN -1 ELSE 0)
    + (IF bets_today >= BETS_HIGH THEN -1
       ELSE IF bets_today < BETS_LOW THEN 1 ELSE 0)

risk_level(score) ==
    IF score >= 3 THEN "high" ELSE IF score >= 1 THEN "medium" ELSE "low"

(***************************************************************************)
(* The signal pool and the combos random.sample / random.randint can give. *)
(***************************************************************************)
\* load_signals_pool() with SIGNALS_POOL unset
SIGNALS_POOL ==
    << <<"eye", 7>>, <<"knife", 7>>, <<"bow", 7>>, <<"snake", 7>>,
       <<"ruby", 7>>, <<"sapphire", 7>>, <<"topaz", 7>>, <<"emerald", 7>>,
       <<"amethyst", 7>>, <<"scarab", 3>> >>

\* combo is a value the loop of lines 377-386 can append: 2 or 3 distinct
\* pool entries, each with a quantity in 1..max (the sum is at most ComboCap
\* unless 30 attempts were all above it)
IsGeneratedCombo(combo) ==
    /\ Len(combo) \in {2, 3}
    /\ \A i \in 1..Len(combo) :
          \E k \in 1..Len(SIGNALS_POOL) :
              /\ combo[i][1] = SIGNALS_POOL[k][1]
              /\ combo[i][2] \in 1..SIGNALS_POOL[k][2]
    /\ \A i, j \in 1..Len(combo) : i # j => combo[i][1] # combo[j][1]

\* the outcomes of the two rounds of random choices the model draws from
ComboChoices ==
    {c \in { << << <<"eye", 3>>, <<"scarab", 2>> >>,
                << <<"ruby", 5>>, <<"bow", 1>>, <<"snake", 4>> >> >>,
             << << <<"knife", 7>>, <<"topaz", 5>> >>,
                << <<"scarab", 3>>, <<"emerald", 6>> >> >> } :
        \A i \in 1..2 : IsGeneratedCombo(c[i])}

(***************************************************************************)
(* The tables of the backend and the helpers that read and write them.     *)
(* A helper gets fails = TRUE when its backend call raises; F is the set   *)
(* of the calls that raise during one webhook delivery.  The schema of     *)
(* usage_logs and analysis_logs is not part of the program: env.UNIQUE_KEYS *)
(* tells whether the tables have a unique key on (user, day) and on        *)
(* (user, hash).                                                           *)
(***************************************************************************)
FaultNames ==
    {"get_member", "add_member", "get_previous_reply", "get_usage_today_1",
     "get_usage_today_2", "get_usage_today_3", "usage_write",
     "save_analysis_log", "signal_stats_insert", "reply_message", "handle"}

\* member_data.get("status") of a row
Status(m) == IF m = None THEN "none" ELSE m.status

\* get_member without its try/except, as the helper of db.py is written:
\* the backend's exception leaves it
get_member_unguarded(F, u) ==
    [exc |-> "get_member" \in F,
     data |-> IF "get_member" \in F THEN None ELSE members[u]]

\* get_member with .eq("status", "approved") added to the query
get_member_approved_only(F, u) ==
    [exc |-> FALSE,
     data |-> IF "get_member" \in F \/ Status(members[u]) # "approved"
              THEN None ELSE members[u]]

\* get_member of app.py: the row, or None when there is none or the call
\* raised; exc tells whether an exception leaves the helper
get_member(F, u) ==
    [exc |-> FALSE,
     data |-> IF "get_member" \in F THEN None ELSE members[u]]

\* add_member: inserts a pending row; line_user_id is the table's key, so
\* the insert raises (and is swallowed) when a row exists
add_member(F, u) ==
    IF "add_member" \in F \/ members[u] # None THEN members
    ELSE [members EXCEPT ![u] = [status |-> "pending", member_level |-> "normal"]]

\* the query of get_usage_today without .eq("used_at", today)
UsageRows_any_day(ul, u, d) ==
    SelectSeq(ul, LAMBDA r : r.line_user_id = u)

UsageRows(ul, u, d) ==
    SelectSeq(ul, LAMBDA r : r.line_user_id = u /\ r.used_at = d)

\* get_usage_today: maybe_single() gives the one row of (user, today); no
\* row, several rows (it raises) or a failed call give 0
get_usage_today(fails, ul, u) ==
    LET rows == UsageRows(ul, u, today) IN
    IF fails \/ Len(rows) # 1 THEN 0 ELSE rows[1].used_count

\* increment_usage whose update writes used instead of used + 1
increment_usage_no_add(F, ul, u) ==
    LET used == get_usage_today("get_usage_today_2" \in F, ul, u) IN
    IF "usage_write" \in F THEN ul
    ELSE IF used = 0
    THEN Append(ul, [line_user_id |-> u, used_at |-> today, used_count |-> 1])
    ELSE ul

\* the write of increment_usage, given the used it read: an insert of the
\* day's row when used == 0 (it raises, and is swallowed, when the table has
\* a unique key and the row exists), an update of the day's rows otherwise
usage_write(ul, u, used) ==
    IF used = 0
    THEN IF env.UNIQUE_KEYS /\ UsageRows(ul, u, today) # <<>> THEN ul
         ELSE Append(ul, [line_user_id |-> u, used_at |-> today,
                          used_count |-> 1])
    ELSE [i \in 1..Len(ul) |->
            IF ul[i].line_user_id = u /\ ul[i].used_at = today
            THEN [ul[i] EXCEPT !.used_count = used + 1] ELSE ul[i]]

\* increment_usage
increment_usage(F, ul, u) ==
    IF "usage_write" \in F THEN ul
    ELSE usage_write(ul, u, get_usage_today("get_usage_today_2" \in F, ul, u))

AnalysisRows(al, u, h) ==
    SelectSeq(al, LAMBDA r : r.line_user_id = u /\ r.msg_hash = h)

\* get_previous_reply reading a column the row does not have: the KeyError
\* is swallowed by its except clause
get_previous_reply_key_error(F, al, u, h) == None

\* get_previous_reply: the stored reply of the one row of (user, hash), or
\* None (no row, several rows, a failed call)
get_previous_reply(F, al, u, h) ==
    LET rows == AnalysisRows(al, u, h) IN
    IF "get_previous_reply" \in F \/ Len(rows) # 1 THEN None ELSE rows[1].reply

\* save_analysis_log: an insert; it raises, and is swallowed, when the call
\* fails or the table has a unique key on (user, hash) and the row exists
save_analysis_log(F, al, u, h, reply) ==
    IF \/ "save_analysis_log" \in F
       \/ env.UNIQUE_KEYS /\ AnalysisRows(al, u, h) # <<>>
    THEN al
    ELSE Append(al, [line_user_id |-> u, msg_hash |-> h, reply |-> reply,
                     analyzed_at |-> today])

RECURSIVE Flatten(_)
\* flat of save_signal_stats: the (signal, quantity) pairs of every group
Flatten(signals) ==
    IF signals = <<>> THEN <<>> ELSE Head(signals) \o Flatten(Tail(signals))

\* save_signal_stats: one insert of all the pairs; a failed insert is
\* logged inside the helper and nothing is raised
save_signal_stats(F, ss, signals) ==
    IF signals = <<>> \/ "signal_stats_insert" \in F THEN ss
    ELSE ss \o [i \in 1..Len(Flatten(signals)) |->
                   [signal_name |-> Flatten(signals)[i][1],
                    quantity |-> Flatten(signals)[i][2]]]

(***************************************************************************)
(* LATEST_SIGNALS: a dict, kept as the sequence of its items in insertion  *)
(* order.                                                                  *)
(***************************************************************************)
DictHas(d, k) == \E i \in 1..Len(d) : d[i].uid = k

\* LATEST_SIGNALS.get(k)
DictGet(d, k) ==
    IF DictHas(d, k) THEN d[CHOOSE i \in 1..Len(d) : d[i].uid = k] ELSE None

\* LATEST_SIGNALS[k] = {"combos": combos, ...}
DictSet(d, k, combos) ==
    IF DictHas(d, k)
    THEN [i \in 1..Len(d) |-> IF d[i].uid = k THEN [uid |-> k, combos |-> combos]
                                               ELSE d[i]]
    ELSE Append(d, [uid |-> k, combos |-> combos])

\* del LATEST_SIGNALS[k]
DictDel(d, k) == SelectSeq(d, LAMBDA e : e.uid # k)

(***************************************************************************)
(* fake_human_like_reply (lines 351-464).  rnd is the pair of combos the   *)
(* random choices give.                                                    *)
(***************************************************************************)
\* lines 373-464 with the test of AUTO_SAVE_SIGNALS left out
Recommend_auto_save(F, u, p, rnd, latest, stats) ==
    IF ~p.ok
    THEN [reply |-> [kind |-> "parse_fail"], latest |-> latest, stats |-> stats,
          scored |-> FALSE]
    ELSE [reply |-> [kind |-> "result",
                     risk |-> risk_level(risk_score(p.not_open, p.rtp_today,
                                                    p.bets_today)),
                     combos |-> rnd],
          latest |-> DictSet(latest, u, rnd),
          stats |-> save_signal_stats(F, stats, rnd),
          scored |-> TRUE]

\* lines 373-464, given the fields p the try block parsed
Recommend(F, u, p, rnd, latest, stats) ==
    IF ~p.ok
    THEN [reply |-> [kind |-> "parse_fail"], latest |-> latest, stats |-> stats,
          scored |-> FALSE]
    ELSE [reply |-> [kind |-> "result",
                     risk |-> risk_level(risk_score(p.not_open, p.rtp_today,
                                                    p.bets_today)),
                     combos |-> rnd],
          latest |-> DictSet(latest, u, rnd),
          stats |-> IF env.AUTO_SAVE_SIGNALS
                    THEN save_signal_stats(F, stats, rnd) ELSE stats,
          scored |-> TRUE]

fake_human_like_reply(F, u, msg, rnd, latest, stats) ==
    Recommend(F, u, ParseFields(msg), rnd, latest, stats)

(***************************************************************************)
(* handle_message (lines 507-654).                                         *)
(***************************************************************************)
\* reply = "": no reply chosen yet
NoReply == [kind |-> ""]

RECURSIVE SaveAll(_, _, _)
\* the loop of the admin's save over list(LATEST_SIGNALS.items())
SaveAll(F, ss, d) ==
    IF d = <<>> THEN ss
    ELSE SaveAll(F, save_signal_stats(F, ss, Head(d).combos), Tail(d))

\* step 2: the fixed commands of a text message
Command(F, u, msg, member_data) ==
    LET base == [reply |-> NoReply, members |-> members,
                 latest |-> LATEST_SIGNALS, stats |-> signal_stats]
        latest == DictGet(LATEST_SIGNALS, u)
    IN  IF msg = CMD_APPLY
        THEN IF member_data # None
             THEN IF member_data.status = "approved"
                  THEN [base EXCEPT !.reply = [kind |-> "already_member"]]
                  ELSE [base EXCEPT !.reply = [kind |-> "already_applied",
                                               status |-> member_data.status]]
             ELSE [base EXCEPT !.reply = [kind |-> "apply_ok"],
                               !.members = add_member(F, u)]
        ELSE IF msg = CMD_TABLE
        THEN [base EXCEPT !.reply = [kind |-> "table"]]
        ELSE IF msg = CMD_HELP
        THEN [base EXCEPT !.reply = [kind |-> "help"]]
        ELSE IF msg = CMD_SAVE
        THEN IF latest = None
             THEN [base EXCEPT !.reply = [kind |-> "no_signal"]]
             ELSE [base EXCEPT !.reply = [kind |-> "saved"],
                               !.stats = save_signal_stats(F, signal_stats,
                                                           latest.combos),
                               !.latest = DictDel(LATEST_SIGNALS, u)]
        ELSE IF msg = CMD_ADMIN_SAVE
        THEN IF env.ADMIN_LINE_ID # "" /\ u = env.ADMIN_LINE_ID
             THEN [base EXCEPT !.reply = [kind |-> "admin_done",
                                          saved_count |-> Len(LATEST_SIGNALS)],
                               !.stats = SaveAll(F, signal_stats, LATEST_SIGNALS),
                               !.latest = <<>>]
             ELSE [base EXCEPT !.reply = [kind |-> "not_admin"]]
        ELSE base

\* is_analysis_request that takes every text for a submission
is_analysis_request_any(m) == m # <<>>

\* is_analysis_request: "RTP", U+8F49 or U+6CE8 U+984D occurs in the text
is_analysis_request(m) ==
    /\ m # <<>>
    /\ \E i \in 1..Len(m) :
          \/ Contains(m[i], <<"R", "T", "P">>)
          \/ Contains(m[i], <<"zhuan">>)
          \/ Contains(m[i], <<"zhu", "e">>)

\* the else branch of step 3 for an approved member: the analysis itself;
\* f is what fake_human_like_reply gave, ul the table increment_usage left
Charge(F, u, h, limit, same, f, ul) ==
    [same EXCEPT
       !.reply = [kind |-> "analysis", body |-> f.reply,
                  remaining |-> limit - get_usage_today("get_usage_today_3" \in F,
                                                        ul, u),
                  limit |-> limit],
       !.usage_logs = ul,
       !.analysis_logs = save_analysis_log(F, analysis_logs, u, h, f.reply),
       !.latest = f.latest, !.stats = f.stats, !.scored = f.scored]

\* step 3 with the quota test moved in front of the duplicate test
Decide_quota_first(F, u, m, member_data, rnd, c, prev, used, same) ==
    LET level == IF member_data # None /\ member_data.status = "approved"
                 THEN member_data.member_level ELSE "normal"
        limit == IF level = "vip" THEN VipLimit ELSE NormalLimit
    IN  IF used >= limit
        THEN [same EXCEPT !.reply = [kind |-> "quota", limit |-> limit,
                                     level |-> level]]
        ELSE IF prev # None
        THEN [same EXCEPT !.reply = [kind |-> "duplicate", prev |-> prev]]
        ELSE IF member_data = None
        THEN [same EXCEPT !.exc = TRUE]
        ELSE IF member_data.status # "approved"
        THEN [same EXCEPT !.reply = [kind |-> "not_approved",
                                     status |-> member_data.status]]
        ELSE Charge(F, u, sha256(m), limit, same,
                    fake_human_like_reply(F, u, m, rnd, c.latest, c.stats),
                    increment_usage(F, usage_logs, u))

\* step 3 after the lookups: prev is what get_previous_reply gave, used what
\* get_usage_today gave, same the outcome that changes nothing
Decide(F, u, m, member_data, rnd, c, prev, used, same) ==
    LET level == IF member_data # None /\ member_data.status = "approved"
                 THEN member_data.member_level ELSE "normal"
        limit == IF level = "vip" THEN VipLimit ELSE NormalLimit
    IN  IF prev # None
        THEN [same EXCEPT !.reply = [kind |-> "duplicate", prev |-> prev]]
        ELSE IF used >= limit
        THEN [same EXCEPT !.reply = [kind |-> "quota", limit |-> limit,
                                     level |-> level]]
        ELSE IF member_data = None
        \* member_data.get("status", "pending") of None: AttributeError
        THEN [same EXCEPT !.exc = TRUE]
        ELSE IF member_data.status # "approved"
        THEN [same EXCEPT !.reply = [kind |-> "not_approved",
                                     status |-> member_data.status]]
        ELSE Charge(F, u, sha256(m), limit, same,
                    fake_human_like_reply(F, u, m, rnd, c.latest, c.stats),
                    increment_usage(F, usage_logs, u))

\* what the handler leaves when step 3 changes nothing; c is what step 2 left
Unchanged(c, request) ==
    [reply |-> c.reply, exc |-> FALSE, request |-> request,
     members |-> c.members, usage_logs |-> usage_logs,
     analysis_logs |-> analysis_logs, latest |-> c.latest, stats |-> c.stats,
     scored |-> FALSE]

\* step 3: the analysis flow
Analysis(F, u, m, member_data, rnd, c) ==
    IF is_analysis_request(m) /\ c.reply = NoReply
    THEN Decide(F, u, m, member_data, rnd, c,
                get_previous_reply(F, analysis_logs, u, sha256(m)),
                get_usage_today("get_usage_today_1" \in F, usage_logs, u),
                Unchanged(c, TRUE))
    ELSE Unchanged(c, FALSE)

\* step 1: msg_for_analysis of a text, of an image whose OCR gave the
\* fields, and of anything else
MsgForAnalysis(ev) ==
    IF ev.type = "text" THEN StripMsg(ev.text)
    ELSE IF ev.type = "image" /\ ~ev.ocr_error THEN ev.text ELSE <<>>

\* steps 1 and 2: the reply and the tables before the analysis flow
Preamble(F, u, ev, m, member_data) ==
    IF ev.type = "text" THEN Command(F, u, m, member_data)
    ELSE [reply |-> IF ev.type # "image" THEN [kind |-> "unsupported"]
                    ELSE IF ev.ocr_error THEN [kind |-> "ocr_error"]
                    ELSE NoReply,
          members |-> members, latest |-> LATEST_SIGNALS, stats |-> signal_stats]

\* steps 4 and 5 and the except clauses: the reply and whether it was sent;
\* raised tells whether an exception leaves the handler
Respond(F, gm, m, a) ==
    IF gm.exc
    THEN [raised |-> TRUE, reply |-> NoReply, sent |-> FALSE,
          request |-> FALSE, msg |-> m, scored |-> FALSE,
          members |-> members, usage_logs |-> usage_logs,
          analysis_logs |-> analysis_logs, latest |-> LATEST_SIGNALS,
          stats |-> signal_stats]
    ELSE [raised |-> FALSE,
          reply |-> IF a.exc THEN NoReply
                    ELSE IF a.reply = NoReply THEN [kind |-> "unrecognized"]
                    ELSE a.reply,
          sent |-> ~a.exc /\ "reply_message" \notin F,
          request |-> a.request, msg |-> m, scored |-> a.scored,
          members |-> a.members, usage_logs |-> a.usage_logs,
          analysis_logs |-> a.analysis_logs, latest |-> a.latest,
          stats |-> a.stats]

\* the handler after the member lookup (gm) and step 1 (m)
Handle(F, u, ev, rnd, gm, m) ==
    Respond(F, gm, m,
            Analysis(F, u, m, gm.data, rnd, Preamble(F, u, ev, m, gm.data)))

\* the whole handler: what it leaves in the tables, the reply and whether it
\* was sent, and whether an exception leaves the handler (raised)
handle_message(u, ev, rnd, F) ==
    Handle(F, u, ev, rnd, get_member(F, u), MsgForAnalysis(ev))

(***************************************************************************)
(* callback (lines 490-505): one webhook delivery.  last records the       *)
(* delivery just handled: the sender's row and usage before it, the reply  *)
(* and what the handler did: scored (a risk level was computed), logged    *)
(* (analysis_logs changed), charged (usage_logs changed), joined (members  *)
(* changed), saved (signal_stats changed), cached (LATEST_SIGNALS          *)
(* changed); known tells that analysis_logs held a row of the sender for   *)
(* the submitted text, failed that some backend call raised, body_error    *)
(* that handler.handle itself raised; wrote is what the delivery appended  *)
(* to signal_stats and pending the LATEST_SIGNALS it found when it did.    *)
(***************************************************************************)
NoEvent ==
    [user |-> "", type |-> "none", msg |-> <<>>, signed |-> FALSE,
     status |-> "none", level |-> "normal", used |-> 0, request |-> FALSE,
     reply |-> NoReply, sent |-> FALSE, raised |-> FALSE, http |-> 0,
     scored |-> FALSE, logged |-> FALSE, charged |-> FALSE, known |-> FALSE,
     joined |-> FALSE, saved |-> FALSE, cached |-> FALSE, failed |-> FALSE,
     body_error |-> FALSE, wrote |-> <<>>, pending |-> <<>>]

callback(u, ev, signed, rnd, F) ==
    \E h \in {handle_message(u, ev, rnd, F)} :
    LET handled == signed /\ "handle" \notin F
        before == [NoEvent EXCEPT
                     !.user = u, !.type = ev.type, !.signed = signed,
                     !.status = Status(members[u]),
                     !.level = IF members[u] = None THEN "normal"
                               ELSE members[u].member_level,
                     !.used = get_usage_today(FALSE, usage_logs, u),
                     !.failed = F \ {"handle"} # {},
                     !.body_error = "handle" \in F]
    IN  IF ~handled
        \* InvalidSignatureError, or handler.handle raises: abort(400)
        THEN /\ last' = [before EXCEPT !.http = 400]
             /\ UNCHANGED <<members, usage_logs, analysis_logs, signal_stats,
                            LATEST_SIGNALS, today, env, gen, handlers>>
        ELSE /\ members' = h.members
             /\ usage_logs' = h.usage_logs
             /\ analysis_logs' = h.analysis_logs
             /\ signal_stats' = h.stats
             /\ LATEST_SIGNALS' = h.latest
             /\ last' = [before EXCEPT
                           !.msg = h.msg, !.request = h.request,
                           !.reply = h.reply, !.sent = h.sent,
                           !.raised = h.raised,
                           !.http = IF h.raised THEN 400 ELSE 200,
                           !.scored = h.scored,
                           !.logged = h.analysis_logs # analysis_logs,
                           !.charged = h.usage_logs # usage_logs,
                           !.known = /\ is_analysis_request(h.msg)
                                     /\ AnalysisRows(analysis_logs, u,
                                                     sha256(h.msg)) # <<>>,
                           !.joined = h.members # members,
                           !.saved = h.stats # signal_stats,
                           !.wrote = SubSeq(h.stats, Len(signal_stats) + 1,
                                            Len(h.stats)),
                           !.pending = IF h.stats # signal_stats
                                       THEN LATEST_SIGNALS ELSE <<>>,
                           !.cached = h.latest # LATEST_SIGNALS]
             /\ UNCHANGED <<today, env, gen, handlers>>

(***************************************************************************)
(* The texts and events the model delivers.                                *)
(***************************************************************************)
\* text_for_analysis of ocr_and_extract_data, which is also what a user types
FormText(not_open, rtp, bets) ==
    << KEY_NOT_OPEN \o <<" ", ":", " ">> \o not_open,
       KEY_RTP \o <<" ", ":", " ">> \o rtp,
       KEY_BETS \o <<" ", ":", " ">> \o bets >>

T_HIGH == FormText(<<"2", "6", "0">>, <<"1", "2", "5">>, <<"2", "0", "0", "0", "0">>)
\* the same text with blanks around it
T_HIGH_PADDED == << <<" ">> \o T_HIGH[1], T_HIGH[2], T_HIGH[3] \o <<" ">>, <<>> >>
\* the form of CMD_TABLE sent back unfilled: no digit to convert
T_BAD == TABLE_FORM
T_HELLO == << <<"h", "e", "l", "l", "o">> >>

TextEvent(t) == [type |-> "text", text |-> t, ocr_error |-> FALSE]
ImageEvent(t) == [type |-> "image", text |-> t, ocr_error |-> FALSE]
ImageError == [type |-> "image", text |-> <<>>, ocr_error |-> TRUE]
Sticker == [type |-> "sticker", text |-> <<>>, ocr_error |-> FALSE]

Commands == {CMD_APPLY, CMD_TABLE, CMD_HELP, CMD_SAVE, CMD_ADMIN_SAVE}

\* a text of the form with only the first field, one text for each n
NumText(n) == << KEY_NOT_OPEN \o <<" ", ":", " ">> \o IntToDigits(n) >>

Events ==
    {TextEvent(t) : t \in Commands \cup {T_HELLO, T_HIGH, T_HIGH_PADDED}}
    \cup {ImageEvent(T_HIGH), ImageError, Sticker}

(***************************************************************************)
(* The member lifecycle outside handle_message: the admin's approval, the  *)
(* expiry sweep and the admin's override.                                  *)
(***************************************************************************)
Approve(t, tier) ==
    /\ members[t] # None
    /\ members[t].status \in {"pending", "expired"}
    /\ members' = [members EXCEPT ![t] = [status |-> "approved",
                                          member_level |-> tier]]
    /\ last' = NoEvent
    /\ UNCHANGED <<usage_logs, analysis_logs, signal_stats, LATEST_SIGNALS,
                   today, env, gen, handlers>>

\* the sweep, for a member whose approved_at is older than the grace window
AutoExpireSweep(t) ==
    /\ members[t] # None
    /\ members[t].status = "approved"
    /\ members[t].member_level = "normal"
    /\ members' = [members EXCEPT ![t].status = "expired"]
    /\ last' = NoEvent
    /\ UNCHANGED <<usage_logs, analysis_logs, signal_stats, LATEST_SIGNALS,
                   today, env, gen, handlers>>

ManualOverride(t) ==
    /\ members[t] # None
    /\ members[t].status # "blocked"
    /\ members' = [members EXCEPT ![t].status = "blocked"]
    /\ last' = NoEvent
    /\ UNCHANGED <<usage_logs, analysis_logs, signal_stats, LATEST_SIGNALS,
                   today, env, gen, handlers>>

\* midnight of UTC+8: datetime.now(tz).strftime('%Y-%m-%d') changes
NextDay ==
    /\ today < MaxDay
    /\ today' = today + 1
    /\ last' = NoEvent
    /\ UNCHANGED <<members, usage_logs, analysis_logs, signal_stats,
                   LATEST_SIGNALS, env, gen, handlers>>

\* no call of fake_human_like_reply is followed step by step
NoCall == [pc |-> "none"]

\* no handler is followed step by step
NoHandlers == <<>>

(***************************************************************************)
(* The signal generator of fake_human_like_reply (lines 373-386), one      *)
(* iteration of its while loop at a time, over the pools load_signals_pool *)
(* returns.  gen is the call in progress: the pool, the attempts of the    *)
(* round and all_combos.                                                   *)
(***************************************************************************)
\* int(maxn) of an item of SIGNALS_POOL: blanks around it and a minus sign
\* are accepted, anything else raises ValueError
PoolInt(v) ==
    LET t == StripLine(v)
        neg == t # <<>> /\ t[1] = "-"
        d == IF neg THEN Tail(t) ELSE t
    IN  [ok |-> d # <<>> /\ SelectSeq(d, IsDigit) = d,
         val |-> IF neg THEN 0 - DigitsToInt(SelectSeq(d, IsDigit))
                 ELSE DigitsToInt(SelectSeq(d, IsDigit))]

RECURSIVE PoolOf(_)
\* the loop of load_signals_pool over SIGNALS_POOL_ENV.split(',')
PoolOf(items) ==
    IF items = <<>> THEN <<>>
    ELSE LET item == Head(items) IN
         (IF HasColon(item) /\ PoolInt(LineValue(item)).ok
          THEN << <<LineKey(item), PoolInt(LineValue(item)).val>> >>
          ELSE <<>>) \o PoolOf(Tail(items))

\* load_signals_pool: the pool of the environment's items, the default pool
\* when it is empty
load_signals_pool(items) ==
    IF PoolOf(items) # <<>> THEN PoolOf(items) ELSE SIGNALS_POOL

\* values of SIGNALS_POOL in the environment: unset; two names; entries
\* that are skipped; a maximum of zero
PoolEnvs ==
    { <<>>,
      << <<"a", ":", "1", "2">>, <<" ", "b", " ", ":", " ", "1">> >>,
      << <<"a", ":", "7">>, <<"b", ":", "x">>, <<"c">>, <<"d", ":", "6">>,
         <<"e", ":", "2">> >>,
      << <<"a", ":", "0">>, <<"b", ":", "3">>, <<"c", ":", "-", "1">> >> }

\* the positions random.sample draws from in the model: the first two
\* entries of the pool and the last
SamplePositions(pool) == {i \in {1, 2, Len(pool)} : i \in 1..Len(pool)}

\* random.sample(SIGNALS_POOL, k): k distinct positions, in any order
Samples(pool, k) ==
    {idx \in [1..k -> SamplePositions(pool)] :
        \A i, j \in 1..k : i # j => idx[i] # idx[j]}

\* random.randint(1, max) in the model: the least and the greatest value
Quantities(max) == {1, max}

RECURSIVE SumQty(_)
\* sum(q for _, q in combo)
SumQty(combo) ==
    IF combo = <<>> THEN 0 ELSE Head(combo)[2] + SumQty(Tail(combo))

\* the end of an iteration that made combo: all_combos.append(combo) and
\* break when the sum is within the cap or the attempts are used up
Attempted(g, combo) ==
    IF SumQty(combo) <= ComboCap \/ g.attempts + 1 > MaxAttempts
    THEN [g EXCEPT !.attempts = 0,
                   !.all_combos = Append(g.all_combos, combo),
                   !.pc = IF Len(g.all_combos) = 1 THEN "done" ELSE "combos"]
    ELSE [g EXCEPT !.attempts = g.attempts + 1]

\* one iteration of the while loop whose random choices succeed
GenAttempt ==
    /\ gen.pc = "combos"
    /\ \E k \in {2, 3} :
          /\ k <= Len(gen.pool)
          /\ \E idx \in Samples(gen.pool, k) :
                /\ \A i \in 1..k : gen.pool[idx[i]][2] >= 1
                /\ \E q \in [1..k -> 1..ComboCap] :
                      /\ \A i \in 1..k : q[i] \in Quantities(gen.pool[idx[i]][2])
                      /\ gen' = Attempted(gen, [i \in 1..k |->
                                                 <<gen.pool[idx[i]][1], q[i]>>])
    /\ UNCHANGED <<members, usage_logs, analysis_logs, signal_stats,
                   LATEST_SIGNALS, today, env, last, handlers>>

\* an iteration that raises ValueError: random.sample of more entries than
\* the pool has, or random.randint(1, max) with max below 1
GenRaise ==
    /\ gen.pc = "combos"
    /\ \E k \in {2, 3} :
          \/ k > Len(gen.pool)
          \/ /\ k <= Len(gen.pool)
             /\ \E idx \in Samples(gen.pool, k) :
                   \E i \in 1..k : gen.pool[idx[i]][2] < 1
    /\ gen' = [gen EXCEPT !.pc = "raised"]
    /\ UNCHANGED <<members, usage_logs, analysis_logs, signal_stats,
                   LATEST_SIGNALS, today, env, last, handlers>>

InitCombo ==
    /\ members = [u \in Users |-> None]
    /\ usage_logs = <<>>
    /\ analysis_logs = <<>>
    /\ signal_stats = <<>>
    /\ LATEST_SIGNALS = <<>>
    /\ today = 0
    /\ env = [ADMIN_LINE_ID |-> AdminUser, AUTO_SAVE_SIGNALS |-> FALSE,
              UNIQUE_KEYS |-> FALSE]
    /\ last = NoEvent
    /\ gen \in {[pc |-> "combos", pool |-> load_signals_pool(items),
                  attempts |-> 0, all_combos |-> <<>>] : items \in PoolEnvs}
    /\ handlers = NoHandlers

NextCombo == GenAttempt \/ GenRaise

SpecCombo == InitCombo /\ [][NextCombo]_vars

(***************************************************************************)
(* The risk assessment of fake_human_like_reply (lines 418-443) on the     *)
(* fields the try block parsed.                                            *)
(***************************************************************************)
\* the values next to a threshold
Around(t) == {t - 1, t, t + 1}

NotOpenValues ==
    {0, 40, 260} \cup Around(NOT_OPEN_LOW) \cup Around(NOT_OPEN_MED)
    \cup Around(NOT_OPEN_HIGH)

RtpValues ==
    {0, 80, 125} \cup Around(RTP_LOW) \cup Around(RTP_MED) \cup Around(RTP_HIGH)

BetsValues == {0, 20000, 90000} \cup Around(BETS_LOW) \cup Around(BETS_HIGH)

\* lines 418-443: risk_score and risk_level of the parsed fields
Score ==
    /\ gen.pc = "score"
    /\ gen' = [gen EXCEPT
                 !.pc = "scored",
                 !.risk_score = risk_score(gen.not_open, gen.rtp_today,
                                           gen.bets_today),
                 !.risk_level = risk_level(risk_score(gen.not_open,
                                                      gen.rtp_today,
                                                      gen.bets_today))]
    /\ UNCHANGED <<members, usage_logs, analysis_logs, signal_stats,
                   LATEST_SIGNALS, today, env, last, handlers>>

InitScore ==
    /\ members = [u \in Users |-> None]
    /\ usage_logs = <<>>
    /\ analysis_logs = <<>>
    /\ signal_stats = <<>>
    /\ LATEST_SIGNALS = <<>>
    /\ today = 0
    /\ env = [ADMIN_LINE_ID |-> AdminUser, AUTO_SAVE_SIGNALS |-> FALSE,
              UNIQUE_KEYS |-> FALSE]
    /\ last = NoEvent
    /\ gen \in {[pc |-> "score", not_open |-> n, rtp_today |-> r,
                  bets_today |-> b, risk_score |-> 0, risk_level |-> ""] :
                 n \in NotOpenValues, r \in RtpValues, b \in BetsValues}
    /\ handlers = NoHandlers

NextScore == Score

SpecScore == InitScore /\ [][NextScore]_vars

(***************************************************************************)
(* SpecTrunc: fake_human_like_reply on decimal texts, its try block        *)
(* (lines 361-371) and then its risk assessment (lines 418-443).  The      *)
(* texts have a whole part next to a threshold and a fraction just below   *)
(* the next whole number.                                                  *)
(***************************************************************************)
\* the longest run of nines in a fraction
MaxNines == 15

Nines(n) == [i \in 1..n |-> "9"]

\* what follows the whole part: nothing, a short fraction, a long one, and a
\* text with a second dot
FracTexts ==
    {<<>>, <<".", "9", "9">>, <<".", "5">>, <<".", "9", ".", "9">>,
     <<".">> \o Nines(MaxNines - 1), <<".">> \o Nines(MaxNines)}

SpinTexts == {IntToDigits(n) : n \in {NOT_OPEN_LOW - 1, NOT_OPEN_HIGH + 1}}

RtpTexts ==
    {IntToDigits(w) \o f : w \in {RTP_LOW - 1, RTP_MED, RTP_HIGH},
                           f \in FracTexts}

BetsTexts ==
    {IntToDigits(w) \o f : w \in {BETS_LOW - 1, BETS_HIGH - 1},
                           f \in FracTexts}

\* lines 361-371: the try block on the message of the call
Parse ==
    /\ gen.pc = "parse"
    /\ LET p == ParseFields(FormText(gen.spins, gen.rtp, gen.bets)) IN
        gen' = IF p.ok
               THEN [gen EXCEPT !.pc = "score", !.not_open = p.not_open,
                                !.rtp_today = p.rtp_today,
                                !.bets_today = p.bets_today]
               ELSE [gen EXCEPT !.pc = "error"]
    /\ UNCHANGED <<members, usage_logs, analysis_logs, signal_stats,
                   LATEST_SIGNALS, today, env, last, handlers>>

InitTrunc ==
    /\ members = [u \in Users |-> None]
    /\ usage_logs = <<>>
    /\ analysis_logs = <<>>
    /\ signal_stats = <<>>
    /\ LATEST_SIGNALS = <<>>
    /\ today = 0
    /\ env = [ADMIN_LINE_ID |-> AdminUser, AUTO_SAVE_SIGNALS |-> FALSE,
              UNIQUE_KEYS |-> FALSE]
    /\ last = NoEvent
    /\ gen \in {[pc |-> "parse", spins |-> n, rtp |-> r, bets |-> b,
                  not_open |-> 0, rtp_today |-> 0, bets_today |-> 0,
                  risk_score |-> 0, risk_level |-> ""] :
                 n \in SpinTexts, r \in RtpTexts, b \in BetsTexts}
    /\ handlers = NoHandlers

NextTrunc == Parse \/ Score

SpecTrunc == InitTrunc /\ [][NextTrunc]_vars

(***************************************************************************)
(* Spec: the bot with a backend that answers.                              *)
(***************************************************************************)
Init ==
    /\ members = [u \in Users |-> None]
    /\ usage_logs = <<>>
    /\ analysis_logs = <<>>
    /\ signal_stats = <<>>
    /\ LATEST_SIGNALS = <<>>
    /\ today = 0
    /\ env \in [ADMIN_LINE_ID : {"", AdminUser}, AUTO_SAVE_SIGNALS : {FALSE},
                   UNIQUE_KEYS : {FALSE}]
    /\ last = NoEvent
    /\ gen = NoCall
    /\ handlers = NoHandlers

Deliver ==
    \E u \in Users, ev \in Events, rnd \in ComboChoices :
        callback(u, ev, TRUE, rnd, {})

\* a delivery whose X-Line-Signature does not match: the body is not read
BadSignature ==
    \E u \in Users, rnd \in ComboChoices : callback(u, Sticker, FALSE, rnd, {})

ApproveMember == \E t \in Users : Approve(t, "normal")

ExpireMember == \E t \in Users : AutoExpireSweep(t)

BlockMember == \E t \in Users : ManualOverride(t)

Next == Deliver \/ BadSignature \/ ApproveMember \/ ExpireMember \/ BlockMember

Spec == Init /\ [][Next]_vars

(***************************************************************************)
(* SpecQuota: one member through a day of submissions.  The texts are      *)
(* NumText(1), NumText(2), ...: a member who holds k rows sends the next   *)
(* new text, NumText(k + 1), or repeats an old one.                        *)
(***************************************************************************)
QuotaUser == "U1"

QuotaCombos == {CHOOSE c \in ComboChoices : TRUE}

QuotaEvents ==
    LET k == Len(SelectSeq(analysis_logs, LAMBDA r : r.line_user_id = QuotaUser)) IN
    {TextEvent(CMD_APPLY)}
    \cup {TextEvent(NumText(n)) : n \in {1, k, k + 1} \ {0}}

InitQuota ==
    /\ members = [u \in Users |-> None]
    /\ usage_logs = <<>>
    /\ analysis_logs = <<>>
    /\ signal_stats = <<>>
    /\ LATEST_SIGNALS = <<>>
    /\ today = 0
    /\ env = [ADMIN_LINE_ID |-> AdminUser, AUTO_SAVE_SIGNALS |-> FALSE,
              UNIQUE_KEYS |-> FALSE]
    /\ last = NoEvent
    /\ gen = NoCall
    /\ handlers = NoHandlers

DeliverQuota ==
    \E ev \in QuotaEvents, rnd \in QuotaCombos :
        callback(QuotaUser, ev, TRUE, rnd, {})

ApproveQuota ==
    \E tier \in {"normal", "vip"} :
        /\ members[QuotaUser] # None
        /\ members[QuotaUser].status = "pending"
        /\ Approve(QuotaUser, tier)

NextQuota == DeliverQuota \/ ApproveQuota

SpecQuota == InitQuota /\ [][NextQuota]_vars

(***************************************************************************)
(* SpecDay: one normal member through the days 0..MaxDay.                  *)
(***************************************************************************)
ApproveDay ==
    /\ members[QuotaUser] # None
    /\ members[QuotaUser].status = "pending"
    /\ Approve(QuotaUser, "normal")

NextInDay == DeliverQuota \/ ApproveDay \/ NextDay

SpecDay == InitQuota /\ [][NextInDay]_vars

(***************************************************************************)
(* SpecAdmin: the admin U2 and the user U1; the admin sends the texts of   *)
(* the approval command.                                                   *)
(***************************************************************************)
TargetUser == "U1"

\* the text U+6838 U+51C6, a blank and the target's id
CMD_APPROVE == << <<"he", "zhun", " ", "U", "1">> >>
\* the text #, U+6838 U+51C6, _vip_ and the target's id
CMD_APPROVE_VIP ==
    << <<"#", "he", "zhun", "_", "v", "i", "p", "_", "U", "1">> >>

AdminEvents ==
    {TextEvent(t) : t \in {CMD_APPLY, CMD_APPROVE, CMD_APPROVE_VIP, T_HIGH}}

InitAdmin ==
    /\ members = [u \in Users |-> None]
    /\ usage_logs = <<>>
    /\ analysis_logs = <<>>
    /\ signal_stats = <<>>
    /\ LATEST_SIGNALS = <<>>
    /\ today = 0
    /\ env = [ADMIN_LINE_ID |-> AdminUser, AUTO_SAVE_SIGNALS |-> FALSE,
              UNIQUE_KEYS |-> FALSE]
    /\ last = NoEvent
    /\ gen = NoCall
    /\ handlers = NoHandlers

DeliverAdmin ==
    \E u \in Users, ev \in AdminEvents, rnd \in QuotaCombos :
        callback(u, ev, TRUE, rnd, {})

\* the row edited in the backend's console
ApproveAdmin == \E t \in Users, tier \in {"normal", "vip"} : Approve(t, tier)

NextAdmin == DeliverAdmin \/ ApproveAdmin

SpecAdmin == InitAdmin /\ [][NextAdmin]_vars

(***************************************************************************)
(* SpecExpiry: a normal member (U1) and a vip member (U2), both approved   *)
(* on day 0, through the days after the grace window.                      *)
(***************************************************************************)
\* the grace window of a normal member, in days
GraceDays == 3

\* the day of approved_at in the row of u: no row is approved after Init
approved_at(u) == 0

ExpiryEvents == {TextEvent(t) : t \in {T_HIGH, CMD_HELP, CMD_APPLY}}

InitExpiry ==
    /\ members = [u \in Users |->
                    [status |-> "approved",
                     member_level |-> IF u = AdminUser THEN "vip" ELSE "normal"]]
    /\ usage_logs = <<>>
    /\ analysis_logs = <<>>
    /\ signal_stats = <<>>
    /\ LATEST_SIGNALS = <<>>
    /\ today = 0
    /\ env = [ADMIN_LINE_ID |-> AdminUser, AUTO_SAVE_SIGNALS |-> FALSE,
              UNIQUE_KEYS |-> FALSE]
    /\ last = NoEvent
    /\ gen = NoCall
    /\ handlers = NoHandlers

DeliverExpiry ==
    \E u \in Users, ev \in ExpiryEvents, rnd \in QuotaCombos :
        callback(u, ev, TRUE, rnd, {})

\* midnight of UTC+8, up to MaxDay days past the grace window
DayPasses ==
    /\ today < GraceDays + MaxDay
    /\ today' = today + 1
    /\ last' = NoEvent
    /\ UNCHANGED <<members, usage_logs, analysis_logs, signal_stats,
                   LATEST_SIGNALS, env, gen, handlers>>

NextExpiry == DeliverExpiry \/ DayPasses

SpecExpiry == InitExpiry /\ [][NextExpiry]_vars

(***************************************************************************)
(* SpecRace: deliveries of one approved member handled at the same time,   *)
(* each by a worker of the server.  A step of a handler is one call of the *)
(* backend (or the computation between two calls); handlers[h] holds the   *)
(* locals of handler h and pc its position in step 3 of handle_message.    *)
(***************************************************************************)
RaceUser == "U1"

RaceTexts == {T_HIGH, NumText(1)}

HandlerIds == 1..MaxHandlers

Idle ==
    [pc |-> "idle", user |-> "", msg |-> <<>>, member_data |-> None,
     limit |-> 0, used |-> 0, body |-> NoReply, reply |-> NoReply,
     sent |-> FALSE]

\* the tables a step does not touch
RaceFrame(changed) ==
    /\ UNCHANGED <<members, today, env, last, gen>>
    /\ "usage_logs" \in changed \/ UNCHANGED usage_logs
    /\ "analysis_logs" \in changed \/ UNCHANGED analysis_logs
    /\ "LATEST_SIGNALS" \in changed \/ UNCHANGED <<LATEST_SIGNALS, signal_stats>>

\* lines 510-530: get_member, msg_for_analysis and msg_hash of a text
Receive(h) ==
    /\ handlers[h].pc = "idle"
    /\ \E t \in RaceTexts :
          handlers' = [handlers EXCEPT
             ![h] = [@ EXCEPT !.pc = IF is_analysis_request(StripMsg(t))
                                     THEN "lookup" ELSE "reply",
                              !.user = RaceUser, !.msg = StripMsg(t),
                              !.member_data = get_member({}, RaceUser).data]]
    /\ RaceFrame({})

\* lines 618-621: get_previous_reply
Lookup(h) ==
    LET l == handlers[h]
        prev == get_previous_reply({}, analysis_logs, l.user, sha256(l.msg))
    IN  /\ l.pc = "lookup"
        /\ handlers' = [handlers EXCEPT
              ![h] = IF prev # None
                     THEN [l EXCEPT !.pc = "reply",
                                    !.reply = [kind |-> "duplicate",
                                               prev |-> prev]]
                     ELSE [l EXCEPT !.pc = "quota"]]
        /\ RaceFrame({})

\* lines 624-632: level, limit, get_usage_today and the two refusals
Quota(h) ==
    LET l == handlers[h]
        level == IF l.member_data # None /\ l.member_data.status = "approved"
                 THEN l.member_data.member_level ELSE "normal"
        limit == IF level = "vip" THEN VipLimit ELSE NormalLimit
        used == get_usage_today(FALSE, usage_logs, l.user)
    IN  /\ l.pc = "quota"
        /\ handlers' = [handlers EXCEPT
              ![h] = IF used >= limit
                     THEN [l EXCEPT !.pc = "reply", !.limit = limit,
                                    !.reply = [kind |-> "quota", limit |-> limit,
                                               level |-> level]]
                     ELSE IF l.member_data = None
                     THEN [l EXCEPT !.pc = "done"]
                     ELSE IF l.member_data.status # "approved"
                     THEN [l EXCEPT !.pc = "reply",
                                    !.reply = [kind |-> "not_approved",
                                               status |-> l.member_data.status]]
                     ELSE [l EXCEPT !.pc = "analyze", !.limit = limit]]
        /\ RaceFrame({})

\* line 635: fake_human_like_reply
Analyze(h) ==
    LET l == handlers[h] IN
    /\ l.pc = "analyze"
    /\ \E rnd \in QuotaCombos :
          \E f \in {fake_human_like_reply({}, l.user, l.msg, rnd, LATEST_SIGNALS,
                                          signal_stats)} :
             /\ LATEST_SIGNALS' = f.latest
             /\ signal_stats' = f.stats
             /\ handlers' = [handlers EXCEPT
                   ![h] = [l EXCEPT !.pc = "log", !.body = f.reply]]
    /\ RaceFrame({"LATEST_SIGNALS"})

\* line 636: save_analysis_log
Log(h) ==
    LET l == handlers[h] IN
    /\ l.pc = "log"
    /\ analysis_logs' = save_analysis_log({}, analysis_logs, l.user,
                                          sha256(l.msg), l.body)
    /\ handlers' = [handlers EXCEPT ![h] = [l EXCEPT !.pc = "inc_read"]]
    /\ RaceFrame({"analysis_logs"})

\* line 176: the get_usage_today of increment_usage
IncRead(h) ==
    LET l == handlers[h] IN
    /\ l.pc = "inc_read"
    /\ handlers' = [handlers EXCEPT
          ![h] = [l EXCEPT !.pc = "inc_write",
                           !.used = get_usage_today(FALSE, usage_logs, l.user)]]
    /\ RaceFrame({})

\* lines 177-187: the insert or the update of increment_usage
IncWrite(h) ==
    LET l == handlers[h] IN
    /\ l.pc = "inc_write"
    /\ usage_logs' = usage_write(usage_logs, l.user, l.used)
    /\ handlers' = [handlers EXCEPT ![h] = [l EXCEPT !.pc = "remain"]]
    /\ RaceFrame({"usage_logs"})

\* lines 638-639: used_after and the line of the remaining analyses
Remain(h) ==
    LET l == handlers[h] IN
    /\ l.pc = "remain"
    /\ handlers' = [handlers EXCEPT
          ![h] = [l EXCEPT
                    !.pc = "reply",
                    !.reply = [kind |-> "analysis", body |-> l.body,
                               remaining |-> l.limit
                                  - get_usage_today(FALSE, usage_logs, l.user),
                               limit |-> l.limit]]]
    /\ RaceFrame({})

\* lines 641-649: the reply of an unrecognized text, and reply_message
Reply(h) ==
    LET l == handlers[h] IN
    /\ l.pc = "reply"
    /\ handlers' = [handlers EXCEPT
          ![h] = [l EXCEPT !.pc = "done", !.sent = TRUE,
                           !.reply = IF l.reply = NoReply
                                     THEN [kind |-> "unrecognized"]
                                     ELSE l.reply]]
    /\ RaceFrame({})

\* the tables after RaceUser's first k analyses of the day, of the texts
\* NumText(2) .. NumText(k + 1), handled one at a time
EarlierAnalyses(k) ==
    [n \in 1..k |->
        [line_user_id |-> RaceUser, msg_hash |-> sha256(NumText(n + 1)),
         reply |-> [kind |-> "result",
                    risk |-> risk_level(risk_score(n + 1, 0, 0)),
                    combos |-> CHOOSE c \in QuotaCombos : TRUE],
         analyzed_at |-> 0]]

EarlierUsage(k) ==
    IF k = 0 THEN <<>>
    ELSE << [line_user_id |-> RaceUser, used_at |-> 0, used_count |-> k] >>

EarlierSignals(k) ==
    IF k = 0 THEN <<>>
    ELSE DictSet(<<>>, RaceUser, CHOOSE c \in QuotaCombos : TRUE)

\* the member has had no analysis today, or is one analysis short of the limit
InitRace ==
    /\ members = [u \in Users |->
                    IF u = RaceUser
                    THEN [status |-> "approved", member_level |-> "normal"]
                    ELSE None]
    /\ \E k \in {0, NormalLimit - 1} :
          /\ usage_logs = EarlierUsage(k)
          /\ analysis_logs = EarlierAnalyses(k)
          /\ LATEST_SIGNALS = EarlierSignals(k)
    /\ signal_stats = <<>>
    /\ today = 0
    /\ env \in [ADMIN_LINE_ID : {AdminUser}, AUTO_SAVE_SIGNALS : {FALSE},
                 UNIQUE_KEYS : BOOLEAN]
    /\ last = NoEvent
    /\ gen = NoCall
    /\ handlers = [h \in HandlerIds |-> Idle]

NextRace ==
    \E h \in HandlerIds :
        \/ Receive(h) \/ Lookup(h) \/ Quota(h) \/ Analyze(h) \/ Log(h)
        \/ IncRead(h) \/ IncWrite(h) \/ Remain(h) \/ Reply(h)

SpecRace == InitRace /\ [][NextRace]_vars

(***************************************************************************)
(* SpecSave: two approved members, one of them the admin, generate and     *)
(* save combos, with AUTO_SAVE_SIGNALS off and on.  A pair of combos       *)
(* stands for one run of the generator: the random choices never give a    *)
(* pair again that is cached or has been written.                          *)
(***************************************************************************)
SaveEvents ==
    {TextEvent(t) : t \in {T_HIGH, NumText(1), CMD_SAVE, CMD_ADMIN_SAVE}}

\* the rows save_signal_stats inserts for a pair of combos
RowsOfPair(combos) == save_signal_stats({}, <<>>, combos)

\* the places where block occurs in seq
Occurrences(seq, block) ==
    {i \in 1..(Len(seq) - Len(block) + 1) :
        SubSeq(seq, i, i + Len(block) - 1) = block}

\* the pair is in the cache or in signal_stats
WasGenerated(rnd) ==
    \/ \E i \in 1..Len(LATEST_SIGNALS) : LATEST_SIGNALS[i].combos = rnd
    \/ Occurrences(signal_stats, RowsOfPair(rnd)) # {}

InitSave ==
    /\ members = [u \in Users |->
                    [status |-> "approved", member_level |-> "normal"]]
    /\ usage_logs = <<>>
    /\ analysis_logs = <<>>
    /\ signal_stats = <<>>
    /\ LATEST_SIGNALS = <<>>
    /\ today = 0
    /\ env \in [ADMIN_LINE_ID : {AdminUser}, AUTO_SAVE_SIGNALS : BOOLEAN,
                 UNIQUE_KEYS : {FALSE}]
    /\ last = NoEvent
    /\ gen = NoCall
    /\ handlers = NoHandlers

DeliverSave ==
    \E u \in Users, ev \in SaveEvents, rnd \in ComboChoices :
        /\ callback(u, ev, TRUE, rnd, {})
        /\ last'.scored => ~WasGenerated(rnd)

NextSave == DeliverSave

SpecSave == InitSave /\ [][NextSave]_vars

(***************************************************************************)
(* SpecFail: deliveries during which backend calls raise.                  *)
(***************************************************************************)
BackendCalls == FaultNames \ {"handle"}

FaultSets == {F \in SUBSET BackendCalls : Cardinality(F) <= MaxFaults}

FailUser == "U1"

FailEvents ==
    {TextEvent(CMD_APPLY), TextEvent(CMD_SAVE), TextEvent(T_HIGH), ImageError}

\* the tables stay within MaxRows rows, inserts into signal_stats and
\* analyses charged to a row
RowsBounded ==
    /\ Len(usage_logs) <= MaxRows
    /\ \A i \in 1..Len(usage_logs) : usage_logs[i].used_count <= MaxRows
    /\ Len(analysis_logs) <= MaxRows
    /\ Len(signal_stats) <= MaxRows * 6

InitFail ==
    /\ members = [u \in Users |-> None]
    /\ usage_logs = <<>>
    /\ analysis_logs = <<>>
    /\ signal_stats = <<>>
    /\ LATEST_SIGNALS = <<>>
    /\ today = 0
    /\ env = [ADMIN_LINE_ID |-> AdminUser, AUTO_SAVE_SIGNALS |-> FALSE,
              UNIQUE_KEYS |-> FALSE]
    /\ last = NoEvent
    /\ gen = NoCall
    /\ handlers = NoHandlers

DeliverFail ==
    \E ev \in FailEvents, rnd \in QuotaCombos, F \in FaultSets :
        /\ callback(FailUser, ev, TRUE, rnd, F)
        /\ RowsBounded'

\* a delivery that handler.handle rejects: a bad signature, or a body it
\* cannot parse
RejectFail ==
    \E signed \in BOOLEAN, rnd \in QuotaCombos, F \in {{}, {"handle"}} :
        /\ ~signed \/ F # {}
        /\ callback(FailUser, Sticker, signed, rnd, F)

ApproveFail == Approve(FailUser, "normal")

NextFail == DeliverFail \/ RejectFail \/ ApproveFail

SpecFail == InitFail /\ [][NextFail]_vars

(***************************************************************************)
(* SpecParse: one approved member sends texts the parser accepts and       *)
(* texts it rejects.                                                       *)
(***************************************************************************)
\* two dots in the RTP field: float() raises
T_DOTS == FormText(<<"1", "2", "0">>, <<"1", ".", "2", ".", "3">>, <<"5", "0">>)
\* a decimal RTP and a bet with a thousands separator
T_DECIMAL == FormText(<<"1", "6", "0">>, <<"1", "2", "0", ".", "9", "9">>,
                      <<"4", "5", ",", "0", "0", "0", ".", "5", "5">>)
\* a chat line with a keyword and no field
T_CHAT == << <<"zhuan", "?">> >>

ParseEvents ==
    {TextEvent(t) : t \in {T_BAD, T_DOTS, T_DECIMAL, T_CHAT, CMD_TABLE}}

InitParse ==
    /\ members = [u \in Users |->
                    IF u = QuotaUser
                    THEN [status |-> "approved", member_level |-> "normal"]
                    ELSE None]
    /\ usage_logs = <<>>
    /\ analysis_logs = <<>>
    /\ signal_stats = <<>>
    /\ LATEST_SIGNALS = <<>>
    /\ today = 0
    /\ env = [ADMIN_LINE_ID |-> AdminUser, AUTO_SAVE_SIGNALS |-> FALSE,
              UNIQUE_KEYS |-> FALSE]
    /\ last = NoEvent
    /\ gen = NoCall
    /\ handlers = NoHandlers

DeliverParse ==
    \E ev \in ParseEvents, rnd \in QuotaCombos :
        callback(QuotaUser, ev, TRUE, rnd, {})

NextParse == DeliverParse

SpecParse == InitParse /\ [][NextParse]_vars

(***************************************************************************)
(* Properties.                                                             *)
(***************************************************************************)
\* the daily limit of a member level
DailyLimit(level) == IF level = "vip" THEN VipLimit ELSE NormalLimit

\* the analyses logged for u on the current day
AnalysesToday(u) ==
    Len(SelectSeq(analysis_logs,
                  LAMBDA r : r.line_user_id = u /\ r.analyzed_at = today))

\* the last delivery was handled and is an analysis submission
Submission == last.http = 200 /\ last.request

\* C1: an analysis submission of a user with no members row, or of a user
\* whose row is pending, is answered with the not-approved reply, nothing is
\* scored, no analysis_logs row is written and usage is not incremented; the
\* access request of a user with no row leaves the user pending.
C1_NotApprovedReply ==
    /\ (Submission /\ last.status \in {"none", "pending"})
         => /\ last.sent
            /\ last.reply.kind = "not_approved"
            /\ ~last.scored /\ ~last.logged /\ ~last.charged
    /\ (last.http = 200 /\ last.type = "text" /\ last.msg = CMD_APPLY
        /\ last.status = "none")
         => Status(members[last.user]) = "pending"

\* C2: a member's analyses of one day never exceed the daily limit of the
\* member's level (15 normal, 50 vip), and a new submission of an approved
\* member whose used_count has reached the limit is refused with the quota
\* reply, without a charge and without an analysis_logs row.
C2_QuotaNeverExceeded ==
    /\ \A u \in Users :
          members[u] # None
            => /\ AnalysesToday(u) <= DailyLimit(members[u].member_level)
               /\ get_usage_today(FALSE, usage_logs, u)
                    <= DailyLimit(members[u].member_level)
    /\ (Submission /\ ~last.known /\ last.status = "approved"
        /\ last.used >= DailyLimit(last.level))
         => /\ last.reply.kind = "quota"
            /\ ~last.scored /\ ~last.logged /\ ~last.charged

\* C2 witness: a vip member's 51st new submission of the day is refused
C2_VipRefusedAtFifty ==
    /\ Submission /\ ~last.known /\ last.level = "vip"
    /\ last.used = VipLimit
    /\ last.reply.kind = "quota"
    /\ AnalysesToday(last.user) = VipLimit

\* C3: a submission whose text the sender has a row for in analysis_logs is
\* answered with exactly the stored reply behind the duplicate notice; the
\* sender's used_count stays what it was and no second row is written.
C3_DuplicateReplay ==
    last.known
      => LET rows == AnalysisRows(analysis_logs, last.user, sha256(last.msg)) IN
         /\ Len(rows) = 1
         /\ last.sent
         /\ last.reply = [kind |-> "duplicate", prev |-> rows[1].reply]
         /\ ~last.charged /\ ~last.logged
         /\ get_usage_today(FALSE, usage_logs, last.user) = last.used

\* C3 witness: a charged member repeats a text and gets the stored result
C3_Replayed ==
    /\ last.known /\ last.type = "text"
    /\ last.reply.kind = "duplicate"
    /\ last.reply.prev.kind = "result"
    /\ last.used > 0

\* C4: when the fields of a new submission of an approved member cannot be
\* parsed, used_count is unchanged, no analysis_logs row is written and no
\* risk result is returned.
C4_ParseFailureFree ==
    (Submission /\ ~last.known /\ last.status = "approved"
     /\ ~ParseFields(last.msg).ok)
      => ~last.charged /\ ~last.logged /\ ~last.scored

\* C5: a user whose status is not approved never gets an analysis result in
\* the reply to a submission, neither a new one nor a replayed one.
C5_NoResultUnlessApproved ==
    (Submission /\ last.status # "approved")
      => last.reply.kind \notin {"analysis", "duplicate"}

\* C6: a fixed command, a text that is no analysis request and a duplicate
\* of an analyzed submission leave usage_logs and analysis_logs unchanged.
C6_CommandsFrame ==
    (/\ last.http = 200
     /\ \/ last.type = "text" /\ last.msg \in Commands \cup {T_HELLO}
        \/ last.known)
      => ~last.charged /\ ~last.logged

\* C6 witness: the save command of a user who has been charged before
C6_SaveAfterCharge ==
    /\ last.type = "text" /\ last.msg = CMD_SAVE
    /\ last.reply.kind = "saved"
    /\ last.used > 0

\* C7: a correctly signed delivery that handler.handle accepts is answered
\* with HTTP 200 and nothing leaves handle_message, whatever backend call
\* fails; HTTP 400 is answered to the other deliveries only.
C7_AlwaysAcknowledged ==
    last.type # "none"
      => IF last.signed /\ ~last.body_error
         THEN last.http = 200 /\ ~last.raised
         ELSE last.http = 400

\* C7 witness: a backend call failed, no reply went out, HTTP 200
C7_FailedYetAcknowledged ==
    last.failed /\ last.signed /\ ~last.sent /\ last.http = 200

\* C8: the admin's save command from a user who is not ADMIN_LINE_ID gets
\* the reply of an unrecognized text and changes neither LATEST_SIGNALS nor
\* signal_stats.
C8_SilentDenial ==
    (last.http = 200 /\ last.type = "text" /\ last.msg = CMD_ADMIN_SAVE
     /\ last.user # env.ADMIN_LINE_ID)
      => /\ last.reply.kind = "unrecognized"
         /\ ~last.saved /\ ~last.cached

\* C9: when the reply to the access request says the request succeeded, the
\* user has a members row with status pending.
C9_SuccessMeansPending ==
    (last.sent /\ last.reply.kind = "apply_ok")
      => Status(members[last.user]) = "pending"

\* C10: the access request of a user who has a members row changes no row:
\* an approved user is told to be a member already, any other user that the
\* request exists, with the status the row has.
C10_ExistingRowUntouched ==
    (last.http = 200 /\ last.type = "text" /\ last.msg = CMD_APPLY
     /\ last.status # "none")
      => /\ ~last.joined
         /\ members[last.user] = [status |-> last.status,
                                  member_level |-> last.level]
         /\ last.reply = IF last.status = "approved"
                         THEN [kind |-> "already_member"]
                         ELSE [kind |-> "already_applied",
                               status |-> last.status]

\* C10 witness: a blocked user asks for access again
C10_BlockedAsksAgain ==
    /\ last.type = "text" /\ last.msg = CMD_APPLY
    /\ last.status = "blocked"
    /\ last.reply.kind = "already_applied"

\* C11: a new analysis submission of the user ADMIN_LINE_ID names is handled
\* as an approved member's with the daily limit 50, whatever the user's
\* members row holds: it is analyzed, or refused for the quota of 50.
C11_AdminImplicitVip ==
    (Submission /\ ~last.known /\ last.user = env.ADMIN_LINE_ID)
      => /\ last.reply.kind \in {"analysis", "quota"}
         /\ last.reply.limit = VipLimit

\* C18: a submission the sender has a stored row for is answered with the
\* stored reply, also when the sender's used_count has reached the daily
\* limit, and nothing is computed: no score, no new combo in LATEST_SIGNALS,
\* no charge.
C18_ReplayBeforeQuota ==
    (Submission /\ last.known)
      => /\ last.reply.kind = "duplicate"
         /\ last.reply.prev
              = AnalysisRows(analysis_logs, last.user, sha256(last.msg))[1].reply
         /\ ~last.scored /\ ~last.cached /\ ~last.charged /\ ~last.logged

\* C18 witness: a member whose usage is at the limit repeats an analyzed text
C18_ReplayedAtLimit ==
    /\ Submission /\ last.known
    /\ last.status = "approved" /\ last.level = "normal"
    /\ last.used = NormalLimit
    /\ last.reply.kind = "duplicate"

\* the greatest quantity the pool allows for a name
MaxOf(pool, name) ==
    LET ks == {k \in 1..Len(pool) : pool[k][1] = name} IN
    IF ks = {} THEN 0
    ELSE pool[CHOOSE k \in ks : \A j \in ks : pool[j][2] <= pool[k][2]][2]

\* C12: every combo the generator appends to all_combos has 2 or 3 entries
\* with distinct names, each quantity within 1..max of its name in the pool,
\* and quantities that sum to at most 12.
C12_CombosWithinCap ==
    gen.pc # "none"
      => \A n \in 1..Len(gen.all_combos) :
            LET combo == gen.all_combos[n] IN
            /\ Len(combo) \in {2, 3}
            /\ \A i, j \in 1..Len(combo) : i # j => combo[i][1] # combo[j][1]
            /\ \A i \in 1..Len(combo) :
                  combo[i][2] \in 1..MaxOf(gen.pool, combo[i][1])
            /\ SumQty(combo) <= 12

\* the weights of the 3-field reference
SpinsWeight(n) ==
    CASE n > NOT_OPEN_HIGH -> 2
      [] n <= NOT_OPEN_HIGH /\ n > NOT_OPEN_MED -> 1
      [] n <= NOT_OPEN_MED /\ n < NOT_OPEN_LOW -> -1
      [] OTHER -> 0

RtpWeight(r) ==
    CASE r > RTP_HIGH -> 2
      [] r <= RTP_HIGH /\ r > RTP_MED -> 1
      [] r <= RTP_MED /\ r < RTP_LOW -> -1
      [] OTHER -> 0

BetsWeight(b) ==
    CASE b >= BETS_HIGH -> -1
      [] b < BETS_HIGH /\ b < BETS_LOW -> 1
      [] OTHER -> 0

\* C13: the risk score of every triple of fields is the sum of the three
\* weights of the reference, it lies in -3..5, the tier is high from 3,
\* medium from 1 and low below; (260, 125, 20000) is high and
\* (40, 80, 90000) is low.
C13_ScoreIsReference ==
    gen.pc = "scored"
      => /\ gen.risk_score = SpinsWeight(gen.not_open) + RtpWeight(gen.rtp_today)
                               + BetsWeight(gen.bets_today)
         /\ gen.risk_score \in -3..5
         /\ gen.risk_score >= 3 => gen.risk_level = "high"
         /\ gen.risk_score \in 1..2 => gen.risk_level = "medium"
         /\ gen.risk_score < 1 => gen.risk_level = "low"
         /\ (gen.not_open = 260 /\ gen.rtp_today = 125 /\ gen.bets_today = 20000)
              => gen.risk_level = "high"
         /\ (gen.not_open = 40 /\ gen.rtp_today = 80 /\ gen.bets_today = 90000)
              => gen.risk_level = "low"

\* C13 witness: a bet of exactly BETS_HIGH takes the score of a hot room
\* from 4 to 3, which is still high
C13_BetsAtThreshold ==
    /\ gen.pc = "scored"
    /\ gen.not_open = 260 /\ gen.rtp_today = 125 /\ gen.bets_today = BETS_HIGH
    /\ gen.risk_score = 3 /\ gen.risk_level = "high"

\* the analyses logged for u on day d
AnalysesOn(u, d) ==
    Len(SelectSeq(analysis_logs,
                  LAMBDA r : r.line_user_id = u /\ r.analyzed_at = d))

\* C14: get_usage_today counts the analyses charged on the current local day
\* only, so it is 0 from the rollover to the first charged analysis of the
\* new day; a new submission of an approved member whose count of the day is
\* below the limit is analyzed and charged, whatever earlier days hold; and
\* the row of an earlier day keeps the count that day ended with.
C14_QuotaResetsAtRollover ==
    /\ \A u \in Users :
          /\ get_usage_today(FALSE, usage_logs, u) = AnalysesOn(u, today)
          /\ \A d \in 0..(today - 1) :
                LET rows == SelectSeq(usage_logs,
                                      LAMBDA r : r.line_user_id = u /\ r.used_at = d)
                IN  IF AnalysesOn(u, d) = 0 THEN rows = <<>>
                    ELSE /\ Len(rows) = 1
                         /\ rows[1].used_count = AnalysesOn(u, d)
    /\ (Submission /\ ~last.known /\ last.status = "approved"
        /\ last.used < DailyLimit(last.level))
         => /\ last.reply.kind = "analysis"
            /\ last.charged
            /\ get_usage_today(FALSE, usage_logs, last.user) = last.used + 1

\* C14 witness: the member who used up day 0 has used up day 1 as well
C14_SecondDayUsedUp ==
    /\ today = 1
    /\ Submission /\ last.reply.kind = "quota" /\ last.used = NormalLimit
    /\ AnalysesOn(last.user, 0) = NormalLimit
    /\ AnalysesOn(last.user, 1) = NormalLimit

\* C15: after the admin has sent an approval command that names a user, the
\* user's members row is not pending any more (a pending row has become
\* approved), so the user's next submission is not refused as pending.
C15_ApprovalCommand ==
    /\ (last.http = 200 /\ last.type = "text" /\ last.user = env.ADMIN_LINE_ID
        /\ last.msg \in {CMD_APPROVE, CMD_APPROVE_VIP})
         => Status(members[TargetUser]) # "pending"
    /\ (last.http = 200 /\ last.type = "text" /\ last.user = env.ADMIN_LINE_ID
        /\ last.msg = CMD_APPROVE_VIP /\ members[TargetUser] # None)
         => members[TargetUser].member_level = "vip"

\* C16: once a webhook event has been handled more than GraceDays days after
\* the approvals, the normal member is expired and the vip member is still
\* approved; the normal member's submission is not answered with an
\* analysis, a new one or a replayed one.
C16_AutoExpiry ==
    (last.http = 200)
      => /\ \A u \in Users :
               (members[u] # None /\ today - approved_at(u) > GraceDays)
                 => IF members[u].member_level = "normal"
                    THEN members[u].status = "expired"
                    ELSE members[u].status = "approved"
         /\ (Submission /\ last.level = "normal"
             /\ today - approved_at(last.user) > GraceDays)
              => last.reply.kind \notin {"analysis", "duplicate"}

\* the analyses of u logged today before the handlers' deliveries
EarlierToday(u) ==
    Len(SelectSeq(analysis_logs,
                  LAMBDA r : /\ r.line_user_id = u /\ r.analyzed_at = today
                             /\ r.msg_hash \notin {sha256(StripMsg(t)) :
                                                      t \in RaceTexts}))

RECURSIVE SumUsed(_)
SumUsed(rows) ==
    IF rows = <<>> THEN 0 ELSE Head(rows).used_count + SumUsed(Tail(rows))

\* the used_count of u's rows of today, added up
UsedToday(u) ==
    SumUsed(SelectSeq(usage_logs,
                      LAMBDA r : r.line_user_id = u /\ r.used_at = today))

\* C17: when two handlers have handled the same text of the same member, one
\* of them has replied with a fresh analysis and the other with the
\* duplicate notice, used_count has gone up by one and analysis_logs holds a
\* single row for the text.
C17_OneFreshAnalysis ==
    \A a, b \in DOMAIN handlers :
        (/\ a # b
         /\ handlers[a].pc = "done" /\ handlers[b].pc = "done"
         /\ handlers[a].user = handlers[b].user
         /\ handlers[a].msg = handlers[b].msg)
          => /\ {handlers[a].reply.kind, handlers[b].reply.kind}
                  = {"analysis", "duplicate"}
             /\ UsedToday(handlers[a].user) = EarlierToday(handlers[a].user) + 1
             /\ Len(AnalysisRows(analysis_logs, handlers[a].user,
                                 sha256(handlers[a].msg))) = 1

\* C20: usage_logs never holds two rows of one user and one day.
C20_OneUsageRowPerDay ==
    \A u \in Users, d \in 0..today :
        Len(SelectSeq(usage_logs,
                      LAMBDA r : r.line_user_id = u /\ r.used_at = d)) <= 1

\* the signal_stats rows of a pair of combos: a row for each (name,
\* quantity), the first combo's before the second's
StatRows(combos) ==
    LET row(e) == [signal_name |-> e[1], quantity |-> e[2]]
        rows(combo) == [i \in 1..Len(combo) |-> row(combo[i])]
    IN  rows(combos[1]) \o rows(combos[2])

RECURSIVE AllStatRows(_)
\* the rows of every cached pair, in the order of the cache
AllStatRows(d) ==
    IF d = <<>> THEN <<>> ELSE StatRows(Head(d).combos) \o AllStatRows(Tail(d))

\* the delivery was the sender's save command and wrote the pair cached for
\* the sender
SavedOwnPair ==
    /\ last.type = "text" /\ last.msg = CMD_SAVE
    /\ DictHas(last.pending, last.user)
    /\ last.wrote = StatRows(DictGet(last.pending, last.user).combos)

\* C19 as stated: with AUTO_SAVE_SIGNALS disabled signal_stats is written
\* only by the save command of the user the combos were generated for, and
\* what is written is that user's latest pair.
C19_SavedOnlyByOwner ==
    (~env.AUTO_SAVE_SIGNALS /\ last.saved) => SavedOwnPair

\* C19 amended: signal_stats is written only by the save command of the user
\* (that user's latest pair) or by the admin's save command sent by
\* ADMIN_LINE_ID (the latest pair of every user who has one).
C19_SavedOnCommandOnly ==
    (~env.AUTO_SAVE_SIGNALS /\ last.saved)
      => \/ SavedOwnPair
         \/ /\ last.type = "text" /\ last.msg = CMD_ADMIN_SAVE
            /\ last.user = env.ADMIN_LINE_ID
            /\ last.wrote = AllStatRows(last.pending)

\* C19 witness: two users have a pair cached and one of them saves
C19_SavedAmongTwo ==
    /\ last.saved /\ last.msg = CMD_SAVE
    /\ Len(last.pending) = 2
    /\ Len(LATEST_SIGNALS) = 1
    /\ ~DictHas(LATEST_SIGNALS, last.user)

\* no handler is between two steps
Quiet == \A h \in DOMAIN handlers : handlers[h].pc \in {"idle", "done"}

\* the fresh analyses delivered to u today: those of earlier deliveries and
\* those the handlers replied with
FreshToday(u) ==
    EarlierToday(u)
    + Cardinality({h \in DOMAIN handlers :
                     /\ handlers[h].pc = "done" /\ handlers[h].user = u
                     /\ handlers[h].reply.kind = "analysis"})

\* C21: when the handlers of a member's deliveries have finished, the
\* day's used_count has gone up by one for each fresh analysis delivered,
\* and the fresh analyses of the day are within the member's daily limit.
C21_NoLostCharge ==
    \A u \in Users :
        (Quiet /\ members[u] # None)
          => /\ UsedToday(u) = FreshToday(u)
             /\ FreshToday(u) <= DailyLimit(members[u].member_level)

\* C22: the rows of a generated pair of combos are in signal_stats at most
\* once, however the pair was persisted (at generation when
\* AUTO_SAVE_SIGNALS is on, by the user's save, by the admin's save).
C22_PersistedOnce ==
    \A c \in ComboChoices :
        Cardinality(Occurrences(signal_stats, StatRows(c))) <= 1

\* C23: a handled save command answers with the success reply, or removes
\* the user's LATEST_SIGNALS entry, only when rows were written to
\* signal_stats; a failed insert leaves the entry and is reported.
C23_FailedSaveIsReported ==
    (last.type = "text" /\ last.msg = CMD_SAVE /\ last.http = 200)
      => ((last.reply.kind = "saved" \/ last.cached) => last.saved)

\* the digits of a decimal text before its first dot, as a number
WholePart(t) ==
    DigitsToInt(IF IndexOf(t, ".") = 0 THEN t
                ELSE SubSeq(t, 1, IndexOf(t, ".") - 1))

\* C24: the score and the tier of a scored submission are those of its spin
\* count and of the integer parts of its RTP and wager texts (the fractions
\* are cut off toward zero before the thresholds are compared), so
\* submissions that agree on these three numbers are scored alike.
C24_TruncatesTowardZero ==
    gen.pc = "scored"
      => LET score == risk_score(DigitsToInt(gen.spins), WholePart(gen.rtp),
                                 WholePart(gen.bets))
         IN  /\ gen.risk_score = score
             /\ gen.risk_level = risk_level(score)

====
